---- MODULE Spec2Model ----
(***************************************************************************)
(* Multiplayer room registry and room state machine of the word game       *)
(* backend (MultiplayerService and the socket handlers that drive it).     *)
(*                                                                         *)
(* The registry is a NodeCache created with its default options, so every  *)
(* cache.get returns a deep copy of the stored room and every cache.set    *)
(* stores a deep copy: a handler works on a private value between its get  *)
(* and its set.  TLA+ values are immutable, which is exactly that.         *)
(* Time is counted in seconds.                                             *)
(***************************************************************************)
EXTENDS Integers, Sequences, FiniteSets, TLC

VARIABLES
    cache,        \* roomId -> [room, t]: the room entries of the NodeCache
    codes,        \* joinCode -> [roomId, t]: the `code:${joinCode}` entries
    now,          \* Date.now()
    nextRoomId,   \* the next fresh uuidv4()
    oracle,       \* letter -> cached available categories (letterService)
    inflight,     \* slot -> submitAnswers call suspended in `await validateAnswers`
    pending,      \* game:start handler suspended in `await startGame`, or <<>>
    observe,      \* whether the results and events of the calls are recorded
    lastResult,   \* what the last service call returned
    lastEvents,   \* the events emitted by the last step, in order
    roundEnded,   \* roomId -> round -> number of round:ended events (capped)
    answerSubmitted, \* roomId -> username -> round -> number of answer:submitted events (capped)
    sink          \* the database writes scheduled with setImmediate, and what they stored

vars == <<cache, codes, now, nextRoomId, oracle, inflight, pending, observe,
          lastResult, lastEvents, roundEnded, answerSubmitted, sink>>

----------------------------------------------------------------------------
(* Bounds of the model *)

MaxRooms == 2          \* rooms ever created in the registry specification
MaxInflight == 2       \* submitAnswers calls awaiting validation at once
MaxTicks == 50         \* clock ticks
GameRooms == 1         \* rooms ever created in the game specification

Usernames == {"alice", "bob", "carol"}
SocketOf == [u \in Usernames |-> "socket-" \o u]   \* one connection per user
JoinCodes == {"AAAAAA", "BBBBBB"}
AllLetters == {"A", "B"}
Categories == {"name", "place", "animal", "food"}
AnswerBatches == {<<0>>, <<100>>, <<0, 100>>}
RoundNumbers == 1 .. Cardinality(AllLetters)
EventCap == 2

(* Program constants *)

StdTTL == 86400
InactiveThreshold == 1800
MaxAttempts == 10
MaxPlayersPerRoom == 8
DefaultRoundsCount == 4
MinCategories == 3
MaxMessageLength == 200
MaxChatMessages == 50
TickStep == InactiveThreshold

SUCCESS == "SUCCESS"
NOT_FOUND == "NOT_FOUND"
UNAUTHORIZED == "UNAUTHORIZED"
BAD_REQUEST == "BAD_REQUEST"
INTERNAL_SERVER_ERROR == "INTERNAL_SERVER_ERROR"
VALIDATION_FAILED == "VALIDATION_FAILED"

----------------------------------------------------------------------------
(* Map<string, GameRoomPlayer>: a JavaScript Map keeps insertion order, so *)
(* it is a sequence of players with pairwise different usernames.          *)

MapKeys(m) == {m[i].username : i \in DOMAIN m}

MapHas(m, k) == k \in MapKeys(m)

MapIndex(m, k) == CHOOSE i \in DOMAIN m : m[i].username = k

MapGet(m, k) == m[MapIndex(m, k)]

\* Map.prototype.set: an existing key keeps its position, a new key is appended
MapSet(m, k, v) ==
    IF MapHas(m, k) THEN [m EXCEPT ![MapIndex(m, k)] = v] ELSE Append(m, v)

\* Map.prototype.delete
MapDelete(m, k) ==
    IF MapHas(m, k)
    THEN LET i == MapIndex(m, k)
         IN  [j \in 1 .. (Len(m) - 1) |-> IF j < i THEN m[j] ELSE m[j + 1]]
    ELSE m

RECURSIVE SumScores(_)
SumScores(s) == IF s = <<>> THEN 0 ELSE Head(s) + SumScores(Tail(s))

Inc(n) == IF n < EventCap THEN n + 1 ELSE n

----------------------------------------------------------------------------
(* NodeCache: an entry is readable until its ttl has passed *)

Entry(v) == [v |-> v, t |-> now + StdTTL]

CacheHas(c, k) == k \in DOMAIN c /\ c[k].t >= now

CacheSet(c, k, v) ==
    [x \in (DOMAIN c) \cup {k} |-> IF x = k THEN Entry(v) ELSE c[x]]

EmptyCache == [x \in {} |-> 0]

CacheDel(c, k) == [x \in (DOMAIN c) \ {k} |-> c[x]]

LiveRooms == {r \in DOMAIN cache : CacheHas(cache, r)}

Room(r) == cache[r].v


----------------------------------------------------------------------------
(* Values *)

NoSocket == "none"

Player(username, role, socketId) ==
    [username |-> username, role |-> role, status |-> "active",
     currentScore |-> 0, answers |-> <<>>, joinedAt |-> now,
     socketId |-> socketId]

DefaultConfig ==
    [roundsCount |-> DefaultRoundsCount,
     supportedCategories |-> {"name", "place", "animal", "food"},
     excludedLetters |-> {}]

Ev(type, roomId, username, round) ==
    [type |-> type, roomId |-> roomId, username |-> username, round |-> round]

\* The calls that end with setImmediate(async () => { try { await <a write of
\* the room> } catch (error) { logger.error(...) } }) are the ones that emit
\* these events; cleanupInactiveRooms schedules one write for each room it deletes
PersistedEvents ==
    {"room:created", "player:joined", "game:started", "game:finished", "game:ended",
     "room:deleted"}

Scheduled(op, evs) ==
    {[op |-> op, roomId |-> evs[i].roomId] :
        i \in {j \in DOMAIN evs : evs[j].type \in PersistedEvents}}

Reply(op, code, evs) ==
    /\ sink' = IF sink.tracked
               THEN [sink EXCEPT !.writes = sink.writes \cup Scheduled(op, evs)]
               ELSE sink
    /\ observe' = observe
    /\ lastResult' = IF observe THEN [op |-> op, code |-> code] ELSE lastResult
    /\ lastEvents' = IF observe THEN evs ELSE lastEvents

\* updateRoom: room.lastActivity = Date.now(); cache.set(room.roomId, room)
updateRoom(c, room) ==
    CacheSet(c, room.roomId, [room EXCEPT !.lastActivity = now])

\* the socket handlers write the caller's socket id into the player they
\* have just created or reactivated, and store the room again
WithSocket(room, username, socketId) ==
    IF MapHas(room.players, username)
    THEN [room EXCEPT !.players[MapIndex(room.players, username)].socketId = socketId]
    ELSE room

----------------------------------------------------------------------------
(* generateUniqueJoinCode.  `samples` is what the successive calls of       *)
(* generateJoinCode return.                                                 *)

\* while (this.cache.has(`code:${code}`) && attempts < maxAttempts)
RECURSIVE joinCodeLoop(_, _, _)
joinCodeLoop(code, attempts, samples) ==
    IF CacheHas(codes, code) /\ attempts < MaxAttempts
    THEN joinCodeLoop(Head(samples), attempts + 1, Tail(samples))
    ELSE [code |-> code, attempts |-> attempts]

Throw == "throw"

generateUniqueJoinCode(samples) ==
    LET end == joinCodeLoop(Head(samples), 0, Tail(samples))
    IN  IF end.attempts >= MaxAttempts THEN Throw ELSE end.code

\* the sample sequences explored: k times one code, then another code
SampleRuns ==
    {[i \in 1 .. (MaxAttempts + 1) |-> IF i <= k THEN c1 ELSE c2] :
        k \in 0 .. MaxAttempts, c1 \in JoinCodes, c2 \in JoinCodes}

----------------------------------------------------------------------------
(* createRoom, with the room:create handler's write of the socket id *)

NewRoom(roomId, joinCode, username) ==
    [roomId |-> roomId, joinCode |-> joinCode, hostId |-> username,
     phase |-> "waiting",
     players |-> <<Player(username, "host", NoSocket)>>,
     maxPlayers |-> MaxPlayersPerRoom,
     currentRound |-> 0, totalRounds |-> DefaultRoundsCount, rounds |-> <<>>,
     config |-> DefaultConfig, chatMessages |-> <<>>,
     lastActivity |-> now, winner |-> <<>>]

createRoomResult(samples) ==
    IF generateUniqueJoinCode(samples) = Throw THEN INTERNAL_SERVER_ERROR ELSE SUCCESS

createRoom(username, socketId, samples) ==
    LET roomId == nextRoomId
        joinCode == generateUniqueJoinCode(samples)
        room == NewRoom(roomId, joinCode, username)
    IN  IF createRoomResult(samples) = SUCCESS
        THEN /\ cache' = updateRoom(cache, WithSocket(room, username, socketId))
             /\ codes' = CacheSet(codes, joinCode, roomId)
             /\ nextRoomId' = nextRoomId + 1
             /\ Reply("createRoom", SUCCESS, <<Ev("room:created", roomId, username, 0)>>)
             /\ UNCHANGED <<now, oracle, inflight, pending, roundEnded, answerSubmitted>>
        ELSE /\ Reply("createRoom", INTERNAL_SERVER_ERROR, <<>>)
             /\ UNCHANGED <<cache, codes, now, nextRoomId, oracle, inflight, pending,
                            roundEnded, answerSubmitted>>

----------------------------------------------------------------------------
(* joinRoom, with the room:join handler's write of the socket id *)

joinRoomResult(joinCode, username) ==
    IF ~CacheHas(codes, joinCode) THEN NOT_FOUND
    ELSE IF ~CacheHas(cache, codes[joinCode].v) THEN NOT_FOUND
    ELSE LET room == Room(codes[joinCode].v)
         IN  IF room.phase # "waiting" THEN BAD_REQUEST
             ELSE IF Len(room.players) >= room.maxPlayers THEN BAD_REQUEST
             ELSE SUCCESS

joinRoomUpdate(room, username) ==
    [room EXCEPT !.players = MapSet(room.players, username,
                                    Player(username, "player", NoSocket)),
                 !.lastActivity = now]

joinRoom(joinCode, username, socketId) ==
    LET res == joinRoomResult(joinCode, username)
    IN  IF res = SUCCESS
        THEN LET roomId == codes[joinCode].v
                 room == joinRoomUpdate(Room(roomId), username)
             IN  /\ cache' = updateRoom(cache, WithSocket(room, username, socketId))
                 /\ Reply("joinRoom", SUCCESS, <<Ev("player:joined", roomId, username, 0)>>)
                 /\ UNCHANGED <<codes, now, nextRoomId, oracle, inflight, pending,
                                roundEnded, answerSubmitted>>
        ELSE /\ Reply("joinRoom", res, <<>>)
             /\ UNCHANGED <<cache, codes, now, nextRoomId, oracle, inflight, pending,
                            roundEnded, answerSubmitted>>

----------------------------------------------------------------------------
(* leaveRoom *)

leaveRoomResult(roomId, username) ==
    IF ~CacheHas(cache, roomId) THEN NOT_FOUND
    ELSE IF ~MapHas(Room(roomId).players, username) THEN NOT_FOUND
    ELSE SUCCESS

\* leaveRoom without the reassignment of the host
leaveRoomKeepsHost(room, username) ==
    [room EXCEPT !.players = MapDelete(room.players, username), !.lastActivity = now]

\* leaveRoom that also drops the recorded winner
leaveRoomForgetsWinner(room, username) ==
    LET rest == MapDelete(room.players, username)
    IN  IF room.hostId = username /\ Len(rest) > 0
        THEN [room EXCEPT !.players = [rest EXCEPT ![1].role = "host"],
                          !.hostId = rest[1].username,
                          !.winner = <<>>,
                          !.lastActivity = now]
        ELSE [room EXCEPT !.players = rest, !.winner = <<>>, !.lastActivity = now]

\* room.players.delete(username), and the first remaining player becomes host
\* when the host has left
leaveRoomUpdate(room, username) ==
    LET rest == MapDelete(room.players, username)
    IN  IF room.hostId = username /\ Len(rest) > 0
        THEN [room EXCEPT !.players = [rest EXCEPT ![1].role = "host"],
                          !.hostId = rest[1].username,
                          !.lastActivity = now]
        ELSE [room EXCEPT !.players = rest, !.lastActivity = now]

leaveRoom(roomId, username) ==
    LET res == leaveRoomResult(roomId, username)
    IN  IF res # SUCCESS
        THEN /\ Reply("leaveRoom", res, <<>>)
             /\ UNCHANGED <<cache, codes, now, nextRoomId, oracle, inflight, pending,
                            roundEnded, answerSubmitted>>
        ELSE LET room == Room(roomId)
                 rest == MapDelete(room.players, username)
             IN  IF room.hostId = username /\ Len(rest) = 0
                 THEN /\ cache' = CacheDel(cache, roomId)
                      /\ codes' = CacheDel(codes, room.joinCode)
                      /\ Reply("leaveRoom", SUCCESS, <<Ev("room:deleted", roomId, "", 0)>>)
                      /\ UNCHANGED <<now, nextRoomId, oracle, inflight, pending,
                                     roundEnded, answerSubmitted>>
                 ELSE /\ cache' = CacheSet(cache, roomId, leaveRoomUpdate(room, username))
                      /\ Reply("leaveRoom", SUCCESS,
                               <<Ev("player:left", roomId, username, 0)>>)
                      /\ UNCHANGED <<codes, now, nextRoomId, oracle, inflight, pending,
                                     roundEnded, answerSubmitted>>

----------------------------------------------------------------------------
(* rejoinRoom, with the game:rejoin handler's write of the socket id *)

rejoinRoomResult(joinCode, username) ==
    IF ~CacheHas(codes, joinCode) THEN NOT_FOUND
    ELSE IF ~CacheHas(cache, codes[joinCode].v) THEN NOT_FOUND
    ELSE IF ~MapHas(Room(codes[joinCode].v).players, username) THEN NOT_FOUND
    ELSE SUCCESS

\* rejoinRoom that gives the player the record of a player who just joined
rejoinRoomAsNewPlayer(room, username) ==
    [room EXCEPT !.players[MapIndex(room.players, username)].status = "active",
                 !.players[MapIndex(room.players, username)].currentScore = 0,
                 !.players[MapIndex(room.players, username)].answers = <<>>,
                 !.lastActivity = now]

rejoinRoomUpdate(room, username) ==
    [room EXCEPT !.players[MapIndex(room.players, username)].status = "active",
                 !.lastActivity = now]

\* rejoinRoom that treats a username the room does not have as a join
rejoinOrJoin(joinCode, username, socketId) ==
    LET res == rejoinRoomResult(joinCode, username)
    IN  IF res = SUCCESS
        THEN LET roomId == codes[joinCode].v
                 room == rejoinRoomUpdate(Room(roomId), username)
             IN  /\ cache' = updateRoom(cache, WithSocket(room, username, socketId))
                 /\ Reply("rejoinRoom", SUCCESS,
                          <<Ev("player:rejoined", roomId, username, 0)>>)
                 /\ UNCHANGED <<codes, now, nextRoomId, oracle, inflight, pending,
                                roundEnded, answerSubmitted>>
        ELSE joinRoom(joinCode, username, socketId)

rejoinRoom(joinCode, username, socketId) ==
    LET res == rejoinRoomResult(joinCode, username)
    IN  IF res = SUCCESS
        THEN LET roomId == codes[joinCode].v
                 room == rejoinRoomUpdate(Room(roomId), username)
             IN  /\ cache' = updateRoom(cache, WithSocket(room, username, socketId))
                 /\ Reply("rejoinRoom", SUCCESS,
                          <<Ev("player:rejoined", roomId, username, 0)>>)
                 /\ UNCHANGED <<codes, now, nextRoomId, oracle, inflight, pending,
                                roundEnded, answerSubmitted>>
        ELSE /\ Reply("rejoinRoom", res, <<>>)
             /\ UNCHANGED <<cache, codes, now, nextRoomId, oracle, inflight, pending,
                            roundEnded, answerSubmitted>>

----------------------------------------------------------------------------
(* markPlayerDisconnected: the first room, in key order, that has a player *)
(* with this socket id, and the first such player of it.  Room keys are    *)
(* in creation order.                                                      *)

RoomsOfSocket(socketId) ==
    {r \in LiveRooms : \E i \in DOMAIN Room(r).players :
                            Room(r).players[i].socketId = socketId}

FirstWithSocket(players, socketId) ==
    CHOOSE i \in DOMAIN players :
        /\ players[i].socketId = socketId
        /\ \A j \in DOMAIN players : players[j].socketId = socketId => i <= j

markPlayerDisconnectedUpdate(room, socketId) ==
    [room EXCEPT !.players[FirstWithSocket(room.players, socketId)].status = "disconnected",
                 !.lastActivity = now]

markPlayerDisconnected(socketId) ==
    /\ RoomsOfSocket(socketId) # {}
    /\ LET roomId == CHOOSE r \in RoomsOfSocket(socketId) :
                        \A q \in RoomsOfSocket(socketId) : r <= q
           room == Room(roomId)
           username == room.players[FirstWithSocket(room.players, socketId)].username
       IN  /\ cache' = CacheSet(cache, roomId, markPlayerDisconnectedUpdate(room, socketId))
           /\ Reply("markPlayerDisconnected", SUCCESS,
                    <<Ev("player:disconnected", roomId, username, 0)>>)
    /\ UNCHANGED <<codes, now, nextRoomId, oracle, inflight, pending,
                   roundEnded, answerSubmitted>>

----------------------------------------------------------------------------
(* updateConfig *)

NoConfig == [roundsCount |-> -1, supportedCategories |-> {}, excludedLetters |-> {}]

configResult(config) ==
    IF config.roundsCount < 1 \/ config.roundsCount > 10 THEN BAD_REQUEST
    ELSE IF config.supportedCategories = {} THEN BAD_REQUEST
    ELSE SUCCESS

\* the gate of the host-only operations without the comparison with hostId
memberGate(room, username) ==
    IF ~MapHas(room.players, username) THEN UNAUTHORIZED ELSE SUCCESS

hostGate(room, username) ==
    IF ~MapHas(room.players, username) THEN UNAUTHORIZED
    ELSE IF room.hostId # username THEN UNAUTHORIZED
    ELSE SUCCESS

\* updateConfig without the test of the phase
updateConfigAnyPhase(roomId, username, config) ==
    IF ~CacheHas(cache, roomId) THEN NOT_FOUND
    ELSE IF hostGate(Room(roomId), username) # SUCCESS THEN UNAUTHORIZED
    ELSE configResult(config)

updateConfigResult(roomId, username, config) ==
    IF ~CacheHas(cache, roomId) THEN NOT_FOUND
    ELSE IF hostGate(Room(roomId), username) # SUCCESS THEN UNAUTHORIZED
    ELSE IF Room(roomId).phase # "waiting" THEN BAD_REQUEST
    ELSE configResult(config)

withConfig(room, config) ==
    [room EXCEPT !.config = config, !.totalRounds = config.roundsCount]

updateConfig(roomId, username, config) ==
    LET res == updateConfigResult(roomId, username, config)
    IN  IF res = SUCCESS
        THEN /\ cache' = CacheSet(cache, roomId,
                    [withConfig(Room(roomId), config) EXCEPT !.lastActivity = now])
             /\ Reply("updateConfig", SUCCESS, <<Ev("config:updated", roomId, "", 0)>>)
             /\ UNCHANGED <<codes, now, nextRoomId, oracle, inflight, pending,
                            roundEnded, answerSubmitted>>
        ELSE /\ Reply("updateConfig", res, <<>>)
             /\ UNCHANGED <<cache, codes, now, nextRoomId, oracle, inflight, pending,
                            roundEnded, answerSubmitted>>

----------------------------------------------------------------------------
(* generateRounds *)

\* letterService.getValidCategoriesForLetter(letter, supportedCategories, 3)
getValidCategoriesForLetter(letter, supportedCategories, minCategories) ==
    LET validCategories == oracle[letter] \cap supportedCategories
    IN  IF Cardinality(validCategories) < minCategories THEN {} ELSE validCategories

Shuffles(S) ==
    {f \in [1 .. Cardinality(S) -> S] : \A i, j \in DOMAIN f : f[i] = f[j] => i = j}

\* for (const letter of shuffledLetters): stop at roundsCount letters, keep a
\* letter that has at least 3 valid categories
RECURSIVE selectLetters(_, _, _)
selectLetters(shuffledLetters, selectedLetters, config) ==
    IF shuffledLetters = <<>> \/ Len(selectedLetters) >= config.roundsCount
    THEN selectedLetters
    ELSE LET letter == Head(shuffledLetters)
             validCategories ==
                 getValidCategoriesForLetter(letter, config.supportedCategories,
                                             MinCategories)
         IN  selectLetters(Tail(shuffledLetters),
                           IF Cardinality(validCategories) >= MinCategories
                           THEN Append(selectedLetters, letter)
                           ELSE selectedLetters,
                           config)

\* a round that takes every valid category of its letter
allValidCategories(letter, config) ==
    {getValidCategoriesForLetter(letter, config.supportedCategories, MinCategories)}

\* the category sets a round of this letter can get: categoryCount is 3, 4 or
\* 5, and the round takes the first min(categoryCount, valid) shuffled ones
roundCategories(letter, config) ==
    LET validCategories ==
            getValidCategoriesForLetter(letter, config.supportedCategories, MinCategories)
        sizes == {IF categoryCount < Cardinality(validCategories)
                  THEN categoryCount ELSE Cardinality(validCategories) :
                      categoryCount \in 3 .. 5}
    IN  {cs \in SUBSET validCategories : Cardinality(cs) \in sizes}

Round(i, letter, categories) ==
    [roundNumber |-> i, letter |-> letter, categories |-> categories,
     startedAt |-> -1, submissions |-> {}]

\* for (let i = 0; i < selectedLetters.length; i++): one round per letter
RECURSIVE roundsFrom(_, _, _)
roundsFrom(selectedLetters, i, config) ==
    IF i > Len(selectedLetters) THEN {<<>>}
    ELSE {<<Round(i, selectedLetters[i], cs)>> \o rest :
            cs \in roundCategories(selectedLetters[i], config),
            rest \in roundsFrom(selectedLetters, i + 1, config)}

\* generateRounds without the filter on excludedLetters
generateRoundsWithExcluded(allLetters, config) ==
    UNION {roundsFrom(selectLetters(shuffledLetters, <<>>, config), 1, config) :
              shuffledLetters \in Shuffles(allLetters)}

\* generateRounds that stops at the first letter without 3 valid categories
generateRoundsGivingUp(allLetters, config) ==
    LET availableLetters == allLetters \ config.excludedLetters
        misses(shuffledLetters) ==
            {i \in DOMAIN shuffledLetters :
                getValidCategoriesForLetter(shuffledLetters[i], config.supportedCategories,
                                            MinCategories) = {}}
        examined(shuffledLetters) ==
            IF misses(shuffledLetters) = {} THEN shuffledLetters
            ELSE SubSeq(shuffledLetters, 1,
                        (CHOOSE i \in misses(shuffledLetters) :
                            \A j \in misses(shuffledLetters) : i <= j) - 1)
    IN  UNION {roundsFrom(selectLetters(examined(shuffledLetters), <<>>, config), 1, config) :
                  shuffledLetters \in Shuffles(availableLetters)}

\* every result generateRounds can return for this config, the alphabet
\* being `allLetters`
generateRoundsOver(allLetters, config) ==
    LET availableLetters == allLetters \ config.excludedLetters
    IN  UNION {roundsFrom(selectLetters(shuffledLetters, <<>>, config), 1, config) :
                  shuffledLetters \in Shuffles(availableLetters)}

generateRounds(config) == generateRoundsOver(AllLetters, config)

----------------------------------------------------------------------------
(* startGame, and the game:start handler that resumes after it *)

startGameResult(roomId, username, config, rounds) ==
    IF ~CacheHas(cache, roomId) THEN NOT_FOUND
    ELSE IF hostGate(Room(roomId), username) # SUCCESS THEN UNAUTHORIZED
    ELSE IF Room(roomId).phase # "waiting" THEN BAD_REQUEST
    ELSE IF Len(Room(roomId).players) < 1 THEN BAD_REQUEST
    ELSE IF config # NoConfig /\ configResult(config) # SUCCESS THEN BAD_REQUEST
    ELSE IF Len(rounds) = 0 THEN INTERNAL_SERVER_ERROR
    ELSE SUCCESS

\* the config the rounds are generated from
startGameConfig(roomId, config) ==
    IF CacheHas(cache, roomId) /\ (config = NoConfig \/ configResult(config) # SUCCESS)
    THEN Room(roomId).config
    ELSE config

startGameUpdate(room, config, rounds) ==
    [(IF config = NoConfig THEN room ELSE withConfig(room, config))
        EXCEPT !.rounds = rounds, !.currentRound = 1, !.phase = "starting",
               !.lastActivity = now]

ZeroRounds == [n \in RoundNumbers |-> 0]

\* startGame working on the stored room itself: the config it was given stays
\* in the room when round generation fails
startGameOnStoredRoom(roomId, username, config, rounds) ==
    LET res == startGameResult(roomId, username, config, rounds)
    IN  IF res = SUCCESS
        THEN LET room == startGameUpdate(Room(roomId), config, rounds)
             IN  /\ cache' = CacheSet(cache, roomId, room)
                 /\ pending' = <<room>>
                 /\ roundEnded' = [roundEnded EXCEPT ![roomId] = ZeroRounds]
                 /\ answerSubmitted' =
                        [answerSubmitted EXCEPT ![roomId] = [u \in Usernames |-> ZeroRounds]]
                 /\ Reply("startGame", SUCCESS, <<Ev("game:started", roomId, "", 1)>>)
                 /\ UNCHANGED <<codes, now, nextRoomId, oracle, inflight>>
        ELSE /\ cache' = IF res = INTERNAL_SERVER_ERROR /\ config # NoConfig
                         THEN [cache EXCEPT ![roomId].v = withConfig(@, config)]
                         ELSE cache
             /\ Reply("startGame", res, <<>>)
             /\ UNCHANGED <<codes, now, nextRoomId, oracle, inflight, pending,
                            roundEnded, answerSubmitted>>

startGame(roomId, username, config, rounds) ==
    LET res == startGameResult(roomId, username, config, rounds)
    IN  IF res = SUCCESS
        THEN LET room == startGameUpdate(Room(roomId), config, rounds)
             IN  /\ cache' = CacheSet(cache, roomId, room)
                 /\ pending' = <<room>>
                 /\ roundEnded' = [roundEnded EXCEPT ![roomId] = ZeroRounds]
                 /\ answerSubmitted' =
                        [answerSubmitted EXCEPT ![roomId] = [u \in Usernames |-> ZeroRounds]]
                 /\ Reply("startGame", SUCCESS, <<Ev("game:started", roomId, "", 1)>>)
                 /\ UNCHANGED <<codes, now, nextRoomId, oracle, inflight>>
        ELSE /\ Reply("startGame", res, <<>>)
             /\ UNCHANGED <<cache, codes, now, nextRoomId, oracle, inflight, pending,
                            roundEnded, answerSubmitted>>

\* a handler that only answers game:start:success
handleGameStartAnswersOnly ==
    /\ pending # <<>>
    /\ pending' = <<>>
    /\ UNCHANGED <<cache, codes, now, nextRoomId, oracle, inflight, observe, lastResult,
                   lastEvents, roundEnded, answerSubmitted, sink>>

\* room.phase = 'playing'; room.rounds[0].startedAt = Date.now(); updateRoom(room)
handleGameStart ==
    /\ pending # <<>>
    /\ LET room == pending[1]
       IN  cache' = updateRoom(cache, [room EXCEPT !.phase = "playing",
                                                   !.rounds[1].startedAt = now])
    /\ pending' = <<>>
    /\ UNCHANGED <<codes, now, nextRoomId, oracle, inflight, observe, lastResult,
                   lastEvents, roundEnded, answerSubmitted, sink>>

----------------------------------------------------------------------------
(* submitAnswers.  The call reads the room, checks it, and then awaits     *)
(* gameService.validateAnswers, which queries the word store; it resumes   *)
(* later with the room value it read.                                      *)

\* the checks made before validation is dispatched
submitAnswersResult(roomId, username) ==
    IF ~CacheHas(cache, roomId) THEN NOT_FOUND
    ELSE LET room == Room(roomId)
         IN  IF ~MapHas(room.players, username) THEN UNAUTHORIZED
             ELSE IF room.phase # "playing" THEN BAD_REQUEST
             ELSE IF room.currentRound < 1 \/ room.currentRound > Len(room.rounds)
                  THEN BAD_REQUEST
             ELSE IF username \in room.rounds[room.currentRound].submissions
                  THEN BAD_REQUEST
             ELSE SUCCESS

FreeSlots == (1 .. MaxInflight) \ DOMAIN inflight

\* `scores` are the totalScore values validateAnswers will return, one for
\* each submitted answer
submitAnswers(roomId, username, scores) ==
    LET res == submitAnswersResult(roomId, username)
    IN  IF res = SUCCESS
        THEN /\ FreeSlots # {}
             /\ LET slot == CHOOSE i \in FreeSlots : \A j \in FreeSlots : i <= j
                IN  inflight' = [i \in (DOMAIN inflight) \cup {slot} |->
                                    IF i = slot
                                    THEN [roomId |-> roomId, username |-> username,
                                          room |-> Room(roomId), scores |-> scores]
                                    ELSE inflight[i]]
             /\ UNCHANGED <<cache, codes, now, nextRoomId, oracle, pending, observe,
                            lastResult, lastEvents, roundEnded, answerSubmitted, sink>>
        ELSE /\ Reply("submitAnswers", res, <<>>)
             /\ UNCHANGED <<cache, codes, now, nextRoomId, oracle, inflight, pending,
                            roundEnded, answerSubmitted>>

\* validateAnswers failed: the call returns and nothing is written
submitAnswersFail(slot) ==
    /\ slot \in DOMAIN inflight
    /\ inflight' = [i \in (DOMAIN inflight) \ {slot} |-> inflight[i]]
    /\ Reply("submitAnswers", INTERNAL_SERVER_ERROR, <<>>)
    /\ UNCHANGED <<cache, codes, now, nextRoomId, oracle, pending,
                   roundEnded, answerSubmitted>>

tagAnswers(scores, roundNumber) ==
    [i \in DOMAIN scores |-> [roundNumber |-> roundNumber, score |-> scores[i]]]

\* an update that adds the round score and marks the submission without
\* logging the answers
submitAnswersUpdateScoreOnly(room, username, scores) ==
    LET i == MapIndex(room.players, username)
        player == room.players[i]
    IN  [room EXCEPT
            !.players[i].currentScore = player.currentScore + SumScores(scores),
            !.rounds[room.currentRound].submissions = @ \cup {username},
            !.lastActivity = now]

\* player.answers.push(...); player.currentScore += roundScore;
\* currentRound.submissions.set(username, true)
submitAnswersUpdate(room, username, scores) ==
    LET i == MapIndex(room.players, username)
        player == room.players[i]
    IN  [room EXCEPT
            !.players[i].answers = player.answers \o tagAnswers(scores, room.currentRound),
            !.players[i].currentScore = player.currentScore + SumScores(scores),
            !.rounds[room.currentRound].submissions = @ \cup {username},
            !.lastActivity = now]

allSubmitted(room) ==
    Len(room.players) = Cardinality(room.rounds[room.currentRound].submissions)

\* validateAnswers returned: the call mutates the room it read and stores it
submitAnswersCommit(slot) ==
    /\ slot \in DOMAIN inflight
    /\ LET call == inflight[slot]
           roomId == call.roomId
           username == call.username
           room == submitAnswersUpdate(call.room, username, call.scores)
           n == room.currentRound
           submitted == Ev("answer:submitted", roomId, username, n)
       IN  /\ answerSubmitted' =
                  [answerSubmitted EXCEPT ![roomId][username][n] = Inc(@)]
           /\ IF allSubmitted(room)
              THEN /\ cache' = CacheSet(cache, roomId, [room EXCEPT !.phase = "round_end"])
                   /\ roundEnded' = [roundEnded EXCEPT ![roomId][n] = Inc(@)]
                   /\ Reply("submitAnswers", SUCCESS,
                            <<submitted, Ev("round:ended", roomId, "", n)>>)
              ELSE /\ cache' = CacheSet(cache, roomId, room)
                   /\ roundEnded' = roundEnded
                   /\ Reply("submitAnswers", SUCCESS, <<submitted>>)
    /\ inflight' = [i \in (DOMAIN inflight) \ {slot} |-> inflight[i]]
    /\ UNCHANGED <<codes, now, nextRoomId, oracle, pending>>

----------------------------------------------------------------------------
(* nextRound *)

nextRoundResult(roomId, username) ==
    IF ~CacheHas(cache, roomId) THEN NOT_FOUND
    ELSE IF hostGate(Room(roomId), username) # SUCCESS THEN UNAUTHORIZED
    ELSE IF Room(roomId).phase # "round_end" THEN BAD_REQUEST
    ELSE SUCCESS

\* the first player in Map order, whatever the scores
firstPlayer(players) ==
    [username |-> players[1].username, score |-> players[1].currentScore]

\* players.sort((a, b) => b.currentScore - a.currentScore)[0]: Array.sort is
\* stable, so the first of the players with the highest score, in Map order
winnerOf(players) ==
    LET i == CHOOSE k \in DOMAIN players :
                /\ \A j \in DOMAIN players : players[j].currentScore <= players[k].currentScore
                /\ \A j \in DOMAIN players :
                       players[j].currentScore = players[k].currentScore => k <= j
    IN  [username |-> players[i].username, score |-> players[i].currentScore]

nextRoundUpdate(room) ==
    IF room.currentRound >= Len(room.rounds)
    THEN [room EXCEPT !.phase = "finished",
                      !.winner = IF Len(room.players) > 0
                                 THEN <<winnerOf(room.players)>> ELSE room.winner]
    ELSE [room EXCEPT !.currentRound = room.currentRound + 1,
                      !.phase = "playing",
                      !.rounds[room.currentRound + 1].startedAt = now,
                      !.lastActivity = now]

nextRound(roomId, username) ==
    LET res == nextRoundResult(roomId, username)
    IN  IF res = SUCCESS
        THEN LET room == nextRoundUpdate(Room(roomId))
             IN  /\ cache' = CacheSet(cache, roomId, room)
                 /\ Reply("nextRound", SUCCESS,
                          IF room.phase = "finished"
                          THEN <<Ev("game:finished", roomId, "", room.currentRound)>>
                          ELSE <<Ev("round:started", roomId, "", room.currentRound)>>)
                 /\ UNCHANGED <<codes, now, nextRoomId, oracle, inflight, pending,
                                roundEnded, answerSubmitted>>
        ELSE /\ Reply("nextRound", res, <<>>)
             /\ UNCHANGED <<cache, codes, now, nextRoomId, oracle, inflight, pending,
                            roundEnded, answerSubmitted>>

----------------------------------------------------------------------------
(* endGame *)

endGameResult(roomId, username) ==
    IF ~CacheHas(cache, roomId) THEN NOT_FOUND
    ELSE IF hostGate(Room(roomId), username) # SUCCESS THEN UNAUTHORIZED
    ELSE IF Room(roomId).phase = "waiting" THEN BAD_REQUEST
    ELSE SUCCESS

\* endGame without the reset of the players' scores and answers
endGameKeepsScores(room) ==
    [room EXCEPT !.phase = "waiting", !.currentRound = 0, !.rounds = <<>>,
                 !.winner = <<>>, !.lastActivity = now]

endGameUpdate(room) ==
    [room EXCEPT !.phase = "waiting", !.currentRound = 0, !.rounds = <<>>,
                 !.winner = <<>>, !.lastActivity = now,
                 !.players = [i \in DOMAIN room.players |->
                                [room.players[i] EXCEPT !.currentScore = 0,
                                                        !.answers = <<>>]]]

endGame(roomId, username) ==
    LET res == endGameResult(roomId, username)
    IN  IF res = SUCCESS
        THEN /\ cache' = CacheSet(cache, roomId, endGameUpdate(Room(roomId)))
             /\ Reply("endGame", SUCCESS, <<Ev("game:ended", roomId, username, 0)>>)
             /\ UNCHANGED <<codes, now, nextRoomId, oracle, inflight, pending,
                            roundEnded, answerSubmitted>>
        ELSE /\ Reply("endGame", res, <<>>)
             /\ UNCHANGED <<cache, codes, now, nextRoomId, oracle, inflight, pending,
                            roundEnded, answerSubmitted>>

-----------------------------------------------------------------------------
(* sendChatMessage.  A message is represented by its length; messageId is   *)
(* a fresh uuid and is left out.                                            *)

sendChatMessageResult(roomId, username, message) ==
    IF ~CacheHas(cache, roomId) THEN NOT_FOUND
    ELSE IF ~MapHas(Room(roomId).players, username) THEN UNAUTHORIZED
    ELSE IF message = 0 \/ message > MaxMessageLength THEN VALIDATION_FAILED
    ELSE SUCCESS

ChatMessage(username, message) ==
    [username |-> username, message |-> message, timestamp |-> now]

\* chatMessages.push(chatMessage); if (length > 50) chatMessages.shift()
pushChatMessage(chatMessages, chatMessage) ==
    LET pushed == Append(chatMessages, chatMessage)
    IN  IF Len(pushed) > MaxChatMessages THEN Tail(pushed) ELSE pushed

sendChatMessage(roomId, username, message) ==
    LET res == sendChatMessageResult(roomId, username, message)
    IN  IF res = SUCCESS
        THEN LET room == Room(roomId)
                 chatMessage == ChatMessage(username, message)
             IN  /\ cache' = CacheSet(cache, roomId,
                                [room EXCEPT !.chatMessages = pushChatMessage(@, chatMessage),
                                             !.lastActivity = now])
                 /\ Reply("sendChatMessage", SUCCESS,
                          <<Ev("chat:message", roomId, username, 0)>>)
                 /\ UNCHANGED <<codes, now, nextRoomId, oracle, inflight, pending,
                                roundEnded, answerSubmitted>>
        ELSE /\ Reply("sendChatMessage", res, <<>>)
             /\ UNCHANGED <<cache, codes, now, nextRoomId, oracle, inflight, pending,
                            roundEnded, answerSubmitted>>

----------------------------------------------------------------------------
(* cleanupInactiveRooms, run by the server's timer with a threshold of 30  *)
(* minutes, and the passing of time                                        *)

InactiveRooms ==
    {r \in LiveRooms : now - Room(r).lastActivity > InactiveThreshold}

RECURSIVE deletedEvents(_)
deletedEvents(rooms) ==
    IF rooms = {} THEN <<>>
    ELSE LET r == CHOOSE x \in rooms : \A y \in rooms : x <= y
         IN  <<Ev("room:deleted", r, "", 0)>> \o deletedEvents(rooms \ {r})

cleanupInactiveRooms ==
    /\ InactiveRooms # {}
    /\ cache' = [r \in (DOMAIN cache) \ InactiveRooms |-> cache[r]]
    /\ codes' = [c \in (DOMAIN codes) \ {Room(r).joinCode : r \in InactiveRooms} |->
                    codes[c]]
    /\ Reply("cleanupInactiveRooms", SUCCESS, deletedEvents(InactiveRooms))
    /\ UNCHANGED <<now, nextRoomId, oracle, inflight, pending, roundEnded, answerSubmitted>>

\* Time passes; NodeCache's periodic check (checkperiod: 60) deletes the
\* entries whose ttl has passed
Tick ==
    /\ now' = now + TickStep
    /\ cache' = [r \in {k \in DOMAIN cache : cache[k].t >= now'} |-> cache[r]]
    /\ codes' = [c \in {k \in DOMAIN codes : codes[k].t >= now'} |-> codes[c]]
    /\ UNCHANGED <<nextRoomId, oracle, inflight, pending,
                   observe, lastResult, lastEvents, roundEnded, answerSubmitted, sink>>

----------------------------------------------------------------------------
(* The state after construction, and the environments *)

RoomIds == 1 .. MaxRooms
GameRoomIds == 1 .. GameRooms

ThreeCategories == {"name", "place", "animal"}

GameConfigs ==
    {[roundsCount |-> n, supportedCategories |-> Categories, excludedLetters |-> {}] :
        n \in 1 .. 2}

InitAll(oracles, observed, tracked) ==
    /\ cache = EmptyCache
    /\ codes = EmptyCache
    /\ now = 0
    /\ nextRoomId = 1
    /\ oracle \in oracles
    /\ inflight = EmptyCache
    /\ pending = <<>>
    /\ observe = observed
    /\ lastResult = [op |-> "new", code |-> SUCCESS]
    /\ lastEvents = <<>>
    /\ roundEnded = [r \in RoomIds |-> ZeroRounds]
    /\ answerSubmitted = [r \in RoomIds |-> [u \in Usernames |-> ZeroRounds]]
    /\ sink = [tracked |-> tracked, writes |-> {}, stored |-> {}]

\* The database is left out of the environments that do not look at it
InitWith(oracles, observed) == InitAll(oracles, observed, FALSE)

\* No request is handled between startGame's return and the resumption of the
\* game:start handler that awaits it
Idle == pending = <<>>

Cleanup == Idle /\ cleanupInactiveRooms

\* The requests of a set of users, each user on a connection of their own,
\* to the first `rooms` rooms
CreateRoom(users, rooms) ==
    \E u \in users, samples \in SampleRuns :
        Idle /\ nextRoomId <= rooms /\ createRoom(u, SocketOf[u], samples)

JoinRoom(users) == \E c \in JoinCodes, u \in users : Idle /\ joinRoom(c, u, SocketOf[u])

LeaveRoom(users, rooms) == \E r \in 1 .. rooms, u \in users : Idle /\ leaveRoom(r, u)

RejoinRoom(users) == \E c \in JoinCodes, u \in users : Idle /\ rejoinRoom(c, u, SocketOf[u])

Disconnect(users) == \E u \in users : Idle /\ markPlayerDisconnected(SocketOf[u])

UpdateConfig(users, configs) ==
    \E r \in GameRoomIds, u \in users, config \in configs : Idle /\ updateConfig(r, u, config)

StartGame(users, configs) ==
    \E r \in GameRoomIds, u \in users, config \in configs :
        Idle /\ \E rounds \in generateRounds(startGameConfig(r, config)) :
            startGame(r, u, config, rounds)

\* at most `slots` calls await validation at once
SubmitAnswers(users, batches, slots) ==
    \E r \in GameRoomIds, u \in users, scores \in batches :
        Idle /\ Cardinality(DOMAIN inflight) < slots /\ submitAnswers(r, u, scores)

ValidationFails == \E slot \in 1 .. MaxInflight : Idle /\ submitAnswersFail(slot)

ValidationReturns == \E slot \in 1 .. MaxInflight : Idle /\ submitAnswersCommit(slot)

NextRound(users) == \E r \in GameRoomIds, u \in users : Idle /\ nextRound(r, u)

EndGame(users) == \E r \in GameRoomIds, u \in users : Idle /\ endGame(r, u)

SendChatMessage(users, messages) ==
    \E r \in GameRoomIds, u \in users, message \in messages :
        Idle /\ sendChatMessage(r, u, message)

\* The clock advances by half an hour.  The server's timer runs
\* cleanupInactiveRooms every five minutes, so time does not pass a room that
\* is due for cleanup.
TickWithin(ticks) ==
    /\ Idle
    /\ now < ticks * TickStep
    /\ InactiveRooms = {}
    /\ Tick

Duo == {"alice", "bob"}

FullOracle == [l \in AllLetters |-> ThreeCategories]

ConfigOf(n) ==
    [roundsCount |-> n, supportedCategories |-> Categories, excludedLetters |-> {}]

----------------------------------------------------------------------------
(* SpecRace: two players of one room whose submissions overlap *)

InitRace == InitWith({FullOracle}, FALSE)

NextRace ==
    \/ CreateRoom(Duo, GameRooms)
    \/ JoinRoom(Duo)
    \/ StartGame(Duo, GameConfigs)
    \/ handleGameStart
    \/ SubmitAnswers(Duo, {<<0, 100>>}, MaxInflight)
    \/ ValidationFails
    \/ ValidationReturns
    \/ NextRound(Duo)

SpecRace == InitRace /\ [][NextRace]_vars

----------------------------------------------------------------------------
(* SpecRoster: three players who join, leave, disconnect and come back      *)
(* during one-round games; one submission is validated at a time            *)

InitRoster == InitWith({FullOracle}, FALSE)

NextRoster ==
    \/ CreateRoom(Usernames, GameRooms)
    \/ JoinRoom(Usernames)
    \/ LeaveRoom(Usernames, GameRooms)
    \/ RejoinRoom(Usernames)
    \/ Disconnect(Usernames)
    \/ StartGame(Usernames, {ConfigOf(1)})
    \/ handleGameStart
    \/ SubmitAnswers(Usernames, {<<100>>}, 1)
    \/ ValidationFails
    \/ ValidationReturns
    \/ NextRound(Usernames)

SpecRoster == InitRoster /\ [][NextRoster]_vars

----------------------------------------------------------------------------
(* SpecStart: the lobby and the start of a game, for every state of the    *)
(* letter-category cache; results and events are recorded                  *)

AllOracles == [AllLetters -> {ThreeCategories, {"name"}}]

StartConfigs ==
    {ConfigOf(n) : n \in {0, 1, 2, 11}}
        \cup {[ConfigOf(2) EXCEPT !.supportedCategories = {}],
              [ConfigOf(2) EXCEPT !.excludedLetters = {"A"}],
              NoConfig}

InitStart == InitWith(AllOracles, TRUE)

NextStart ==
    \/ CreateRoom(Duo, GameRooms)
    \/ JoinRoom(Duo)
    \/ LeaveRoom(Duo, GameRooms)
    \/ UpdateConfig(Duo, StartConfigs \ {NoConfig})
    \/ StartGame(Duo, StartConfigs)
    \/ handleGameStart
    \/ EndGame(Duo)

SpecStart == InitStart /\ [][NextStart]_vars

----------------------------------------------------------------------------
(* SpecWinner: players who join at different times play one game to its end *)

WinnerTicks == 3

InitWinner == InitWith({FullOracle}, FALSE)

NextWinner ==
    \/ CreateRoom(Duo, GameRooms)
    \/ JoinRoom(Duo)
    \/ LeaveRoom(Duo, GameRooms)
    \/ TickWithin(WinnerTicks)
    \/ Cleanup
    \/ StartGame(Duo, {ConfigOf(1)})
    \/ handleGameStart
    \/ SubmitAnswers(Duo, {<<0>>, <<100>>}, 1)
    \/ ValidationFails
    \/ ValidationReturns
    \/ NextRound(Duo)

SpecWinner == InitWinner /\ [][NextWinner]_vars

----------------------------------------------------------------------------
(* SpecRegistry: rooms are created, kept busy, left and evicted over more  *)
(* than a day                                                              *)

InitRegistry == InitWith({FullOracle}, FALSE)

NextRegistry ==
    \/ CreateRoom({"alice"}, MaxRooms)
    \/ RejoinRoom({"alice"})
    \/ LeaveRoom({"alice"}, MaxRooms)
    \/ TickWithin(MaxTicks)
    \/ Cleanup

SpecRegistry == InitRegistry /\ [][NextRegistry]_vars

----------------------------------------------------------------------------
(* SpecHost: a room created by alice and joined by bob, through all phases  *)
(* of a one-round game, with the result and the events of every call        *)
(* recorded                                                                 *)

\* a rejoin by a client that holds the join code of a room
RejoinLive(users) ==
    \E c \in JoinCodes, u \in users :
        Idle /\ CacheHas(codes, c) /\ rejoinRoom(c, u, SocketOf[u])

\* a config that leaves no letter to generate rounds from
NoLetters ==
    [roundsCount |-> 2, supportedCategories |-> Categories, excludedLetters |-> AllLetters]

InitHost == InitWith({FullOracle}, TRUE)

NextHost ==
    \/ CreateRoom({"alice"}, GameRooms)
    \/ JoinRoom({"bob"})
    \/ LeaveRoom(Duo, GameRooms)
    \/ RejoinLive(Duo)
    \/ UpdateConfig(Duo, {ConfigOf(1), ConfigOf(0)})
    \/ StartGame(Duo, {ConfigOf(1), NoLetters})
    \/ handleGameStart
    \/ SubmitAnswers(Duo, {<<100>>}, 1)
    \/ ValidationFails
    \/ ValidationReturns
    \/ NextRound(Duo)
    \/ EndGame(Duo)

SpecHost == InitHost /\ [][NextHost]_vars

\* The same environment with the scheduling the event loop gives: a suspended
\* handler or call is resumed, and the players and the host keep playing
\* (every player submits, the host asks for the next round)
FairHost ==
    /\ WF_vars(handleGameStart)
    /\ WF_vars(ValidationReturns)
    /\ \A u \in Duo : WF_vars(SubmitAnswers({u}, {<<100>>}, 1))
    /\ WF_vars(NextRound(Duo))

\* alice's room, which bob joins and may leave, played by both
NextDeparture ==
    \/ CreateRoom({"alice"}, GameRooms)
    \/ JoinRoom({"bob"})
    \/ LeaveRoom({"bob"}, GameRooms)
    \/ StartGame({"alice"}, {ConfigOf(1)})
    \/ handleGameStart
    \/ SubmitAnswers(Duo, {<<100>>}, 1)
    \/ ValidationReturns
    \/ NextRound(Duo)

SpecDeparture == InitHost /\ [][NextDeparture]_vars /\ FairHost

-----------------------------------------------------------------------------
(* SpecReconnect: the host and one player of a one-round game whose          *)
(* connections drop and who come back on a new connection                    *)

ReconnectSocketOf == [u \in Usernames |-> "socket-" \o u \o "-2"]

\* game:rejoin sent on a new connection by a player marked disconnected
Reconnect(users) ==
    \E c \in JoinCodes, u \in users :
        /\ Idle
        /\ rejoinRoomResult(c, u) = SUCCESS
        /\ MapGet(Room(codes[c].v).players, u).status = "disconnected"
        /\ rejoinRoom(c, u, ReconnectSocketOf[u])

InitReconnect == InitWith({FullOracle}, TRUE)

NextReconnect ==
    \/ CreateRoom({"alice"}, GameRooms)
    \/ JoinRoom({"bob"})
    \/ Disconnect(Duo)
    \/ Reconnect(Duo)
    \/ StartGame(Duo, {ConfigOf(1)})
    \/ handleGameStart
    \/ SubmitAnswers(Duo, {<<100>>}, 1)
    \/ ValidationFails
    \/ ValidationReturns
    \/ NextRound(Duo)

SpecReconnect == InitReconnect /\ [][NextReconnect]_vars

-----------------------------------------------------------------------------
(* SpecScenario: alice creates a room, bob joins, a game of two rounds is    *)
(* played with one submission validated at a time                            *)

ScenarioCategories == {"name", "food", "animal"}

ScenarioConfig ==
    [roundsCount |-> 2, supportedCategories |-> ScenarioCategories, excludedLetters |-> {}]

ScenarioOracle == [l \in AllLetters |-> ScenarioCategories]

InitScenario == InitWith({ScenarioOracle}, TRUE)

NextScenario ==
    \/ CreateRoom({"alice"}, GameRooms)
    \/ JoinRoom({"bob"})
    \/ StartGame(Duo, {ScenarioConfig})
    \/ handleGameStart
    \/ SubmitAnswers(Duo, {<<0>>, <<100>>}, 1)
    \/ ValidationFails
    \/ ValidationReturns
    \/ NextRound(Duo)

SpecScenario == InitScenario /\ [][NextScenario]_vars

-----------------------------------------------------------------------------
(* SpecChat: alice plays one-round games alone, ended early or played     *)
(* out, and chats; bob sends messages from outside the room                 *)

MessageLengths == {0, 5, 201}

InitChat == InitWith({FullOracle}, TRUE)

NextChat ==
    \/ CreateRoom({"alice"}, GameRooms)
    \/ SendChatMessage(Duo, MessageLengths)
    \/ StartGame({"alice"}, {ConfigOf(1)})
    \/ handleGameStart
    \/ SubmitAnswers({"alice"}, {<<100>>}, 1)
    \/ ValidationFails
    \/ ValidationReturns
    \/ NextRound({"alice"})
    \/ EndGame({"alice"})

SpecChat == InitChat /\ [][NextChat]_vars

-----------------------------------------------------------------------------
(* SpecRounds: a game started by alice over an alphabet of three            *)
(* letters, for every state of the letter-category cache in which a letter  *)
(* has one, three or six categories                                         *)

MoreLetters == {"A", "B", "C"}

SixCategories == Categories \cup {"thing", "city"}

RoundOracles ==
    {o \in [MoreLetters -> {{"name"}, ThreeCategories, SixCategories}] :
        Cardinality({l \in MoreLetters : o[l] = SixCategories}) <= 1}

RoundConfigs ==
    {[roundsCount |-> n, supportedCategories |-> cs, excludedLetters |-> ex] :
        n \in 1 .. 3, cs \in {Categories, SixCategories}, ex \in {{}, {"A"}}}

\* game:start sent for a room that waits for its game
StartGameOver(allLetters, users, configs) ==
    \E r \in GameRoomIds, u \in users, config \in configs :
        Idle /\ CacheHas(cache, r) /\ Room(r).phase = "waiting"
             /\ \E rounds \in generateRoundsOver(allLetters, startGameConfig(r, config)) :
            startGame(r, u, config, rounds)

InitRounds == InitWith(RoundOracles, TRUE)

NextRounds ==
    \/ CreateRoom({"alice"}, GameRooms)
    \/ StartGameOver(MoreLetters, {"alice"}, RoundConfigs)
    \/ handleGameStart

SpecRounds == InitRounds /\ [][NextRounds]_vars

----------------------------------------------------------------------------
(* The database writes.  Every write of a room is scheduled with           *)
(* setImmediate and runs after the call has returned, inside a try whose   *)
(* catch only logs: it reads the handler's room object and never touches   *)
(* the NodeCache.  A write that stays in sink.writes is a delayed one.     *)

\* what the service and the socket handlers read and write
machine == <<cache, codes, now, nextRoomId, oracle, inflight, pending, observe,
             lastResult, lastEvents, roundEnded, answerSubmitted>>

\* the awaited model call resolved
PersistenceSucceeds ==
    \E write \in sink.writes :
        /\ sink' = [sink EXCEPT !.writes = sink.writes \ {write},
                                !.stored = sink.stored \cup {write}]
        /\ UNCHANGED machine

\* a handler that takes the room out of the cache when its write is rejected
PersistenceFailsAndDropsRoom ==
    \E write \in sink.writes :
        /\ sink' = [sink EXCEPT !.writes = sink.writes \ {write}]
        /\ cache' = CacheDel(cache, write.roomId)
        /\ UNCHANGED <<codes, now, nextRoomId, oracle, inflight, pending, observe,
                       lastResult, lastEvents, roundEnded, answerSubmitted>>

\* the awaited model call rejected: catch (error) { logger.error(...) }
PersistenceFails ==
    \E write \in sink.writes :
        /\ sink' = [sink EXCEPT !.writes = sink.writes \ {write}]
        /\ UNCHANGED machine

InitPersist == InitAll({FullOracle}, TRUE, TRUE)

NextPersist ==
    \/ CreateRoom({"alice"}, GameRooms)
    \/ LeaveRoom({"alice"}, GameRooms)
    \/ StartGame({"alice"}, {ConfigOf(1)})
    \/ handleGameStart
    \/ SubmitAnswers({"alice"}, {<<100>>}, 1)
    \/ ValidationFails
    \/ ValidationReturns
    \/ NextRound({"alice"})
    \/ EndGame({"alice"})
    \/ PersistenceSucceeds
    \/ PersistenceFails

SpecPersist == InitPersist /\ [][NextPersist]_vars

----------------------------------------------------------------------------
(* Properties *)

CurrentRounds(r) ==
    IF Room(r).currentRound >= 1 /\ Room(r).currentRound <= Len(Room(r).rounds)
    THEN {Room(r).currentRound} ELSE {}

Submissions(r, n) == Room(r).rounds[n].submissions

PlayersOf(r) == MapKeys(Room(r).players)

\* The answers a player's log holds for round n
LogOfRound(player, n) ==
    SelectSeq(player.answers, LAMBDA a : a.roundNumber = n)

LoggedScore(player) ==
    SumScores([i \in DOMAIN player.answers |-> player.answers[i].score])

\* C1: for every round of a game the round:ended event is emitted exactly
\* once: never twice, and never skipped once every player of the room has had
\* a submission for that round accepted; and it is emitted only when every
\* player has submitted.
C1_RoundEndsExactlyOnce ==
    \A r \in LiveRooms : \A n \in DOMAIN Room(r).rounds :
        /\ roundEnded[r][n] <= 1
        /\ (\A u \in PlayersOf(r) : answerSubmitted[r][u][n] >= 1)
               => roundEnded[r][n] = 1
        /\ roundEnded[r][n] >= 1
               => \A u \in PlayersOf(r) : answerSubmitted[r][u][n] >= 1

\* C2: in every room whose current round has as many submissions as the room
\* has players, the phase is round_end or finished, never playing (nor any
\* other phase), whatever submitAnswers, leaveRoom, markPlayerDisconnected and
\* rejoinRoom calls came before.
C2_AllSubmittedImpliesRoundOver ==
    \A r \in LiveRooms : \A n \in CurrentRounds(r) :
        Cardinality(Submissions(r, n)) = Len(Room(r).players)
            => Room(r).phase \in {"round_end", "finished"}

\* C3: the usernames recorded in the current round's submissions are all
\* players of the room, also after a player who had submitted has left.
C3_SubmissionsAmongPlayers ==
    \A r \in LiveRooms : \A n \in CurrentRounds(r) :
        Submissions(r, n) \subseteq PlayersOf(r)

\* C7: a room in phase round_end holds, for its current round, a submission of
\* every player it has, active or disconnected (players cannot be added after
\* the room has entered round_end, so this is the claim at the moment of
\* entering and ever after): a submission of someone else never ends the round
\* of a player who has not submitted.
C7_RoundEndMeansEveryPlayerSubmitted ==
    \A r \in LiveRooms : \A n \in CurrentRounds(r) :
        Room(r).phase = "round_end" => PlayersOf(r) \subseteq Submissions(r, n)

\* C4: every player whose submission for the current round was accepted is
\* recorded in that round's submissions and keeps the answers appended by it,
\* with a score that is the sum of the recorded answers, also when the
\* accepted calls of different players overlapped.
C4_AcceptedSubmissionsRetained ==
    \A r \in LiveRooms : \A n \in CurrentRounds(r) : \A u \in PlayersOf(r) :
        answerSubmitted[r][u][n] >= 1 =>
            /\ u \in Submissions(r, n)
            /\ LogOfRound(MapGet(Room(r).players, u), n) # << >>
            /\ MapGet(Room(r).players, u).currentScore
                   = LoggedScore(MapGet(Room(r).players, u))

\* The answers logged for round n are those of no submission or of exactly one.
AtMostOneSubmissionLogged(player, n) ==
    \/ LogOfRound(player, n) = << >>
    \/ \E batch \in AnswerBatches : LogOfRound(player, n) = tagAnswers(batch, n)

\* C5: for one player and one round at most one submitAnswers call is
\* accepted, also when two calls are in flight together: answer:submitted is
\* emitted once for that player and round, the answers log holds the answers
\* of one submission, and the score is the sum of the logged answers.
C5_OneAcceptedSubmissionPerRound ==
    \A r \in LiveRooms : \A n \in DOMAIN Room(r).rounds : \A u \in PlayersOf(r) :
        /\ answerSubmitted[r][u][n] <= 1
        /\ AtMostOneSubmissionLogged(MapGet(Room(r).players, u), n)
        /\ MapGet(Room(r).players, u).currentScore
               = LoggedScore(MapGet(Room(r).players, u))

\* C6: a submitAnswers call for a username already in the current round's
\* submissions is answered BAD_REQUEST, and the answers log of every player
\* holds, for every round, the answers of at most one submission.
C6_RepeatedSubmissionRejected ==
    /\ \A r \in LiveRooms : \A n \in CurrentRounds(r) : \A u \in Submissions(r, n) :
           submitAnswersResult(r, u) = BAD_REQUEST
    /\ \A r \in LiveRooms : \A n \in DOMAIN Room(r).rounds : \A u \in PlayersOf(r) :
           AtMostOneSubmissionLogged(MapGet(Room(r).players, u), n)

\* C8: a game is under way only with exactly config.roundsCount rounds: when
\* the generator yields fewer, startGame is rejected, and the room is still
\* waiting, at currentRound 0 and without rounds.
C8_StartNeedsAllRounds ==
    \A r \in LiveRooms :
        IF Room(r).phase = "waiting"
        THEN Room(r).currentRound = 0 /\ Room(r).rounds = << >>
        ELSE Len(Room(r).rounds) = Room(r).config.roundsCount

\* C9: when a room goes from round_end to finished, the winner recorded is a
\* player of the highest currentScore who, among the players of that score,
\* has the earliest joinedAt.
WinnerIsEarliestOfBest(room) ==
    room.players # << >> =>
        /\ room.winner # << >>
        /\ \E i \in DOMAIN room.players :
            /\ room.players[i].username = room.winner[1].username
            /\ room.winner[1].score = room.players[i].currentScore
            /\ \A j \in DOMAIN room.players :
                /\ room.players[j].currentScore <= room.players[i].currentScore
                /\ room.players[j].currentScore = room.players[i].currentScore
                       => room.players[i].joinedAt <= room.players[j].joinedAt

C9_WinnerIsEarliestOfBest ==
    [][\A r \in LiveRooms :
          (Room(r).phase = "round_end" /\ r \in DOMAIN cache'
               /\ cache'[r].v.phase = "finished")
              => WinnerIsEarliestOfBest(cache'[r].v)]_vars

\* C10: two live rooms never have the same joinCode.
C10_JoinCodesDistinct ==
    \A r1 \in LiveRooms : \A r2 \in LiveRooms :
        r1 # r2 => Room(r1).joinCode # Room(r2).joinCode

\* C11: a room that was created and is no longer in the registry (its last
\* player left, or it was evicted) is never in the registry again: no later
\* step makes its roomId readable, or makes a join code lead to it.
Created(r) == r < nextRoomId

C11_DestroyedRoomStaysGone ==
    [][\A r \in RoomIds :
          (Created(r) /\ r \notin LiveRooms)
              => /\ r \notin DOMAIN cache'
                 /\ \A c \in DOMAIN codes' : codes'[c].v # r]_vars

C13_DuplicateJoinRejected ==
    [][\A c \in JoinCodes : \A u \in Usernames :
          (/\ CacheHas(codes, c) /\ CacheHas(cache, codes[c].v)
           /\ MapHas(Room(codes[c].v).players, u)
           /\ joinRoom(c, u, SocketOf[u]))
              => /\ cache' = cache
                 /\ lastResult'.code # SUCCESS
                 /\ lastEvents' = <<>>]_vars

\* C14: a call that returns a failure (NOT_FOUND, UNAUTHORIZED, BAD_REQUEST,
\* INTERNAL_SERVER_ERROR) leaves every room of the registry, and the join
\* codes, exactly as they were and emits no event; so a startGame that brings
\* a config and fails for want of rounds leaves config and totalRounds as they
\* were, and a submitAnswers whose validation fails leaves answers, scores and
\* submissions as they were.
C14_FailureChangesNothing ==
    [][lastResult'.code # SUCCESS
          => cache' = cache /\ codes' = codes /\ lastEvents' = <<>>]_vars

C14_Witness ==
    /\ lastResult = [op |-> "startGame", code |-> INTERNAL_SERVER_ERROR]
    /\ 1 \in LiveRooms
    /\ Room(1).phase = "waiting"
    /\ Room(1).config = DefaultConfig
    /\ Room(1).totalRounds = DefaultRoundsCount

\* The configs a client sends with config:update or game:start
SentConfigs == {ConfigOf(1), ConfigOf(0), NoLetters, NoConfig}

\* updateConfig or startGame, called by `u` for room `r`
ConfigOrStart(r, u) ==
    \E config \in SentConfigs :
        \/ config # NoConfig /\ updateConfig(r, u, config)
        \/ \E rounds \in generateRounds(startGameConfig(r, config)) :
               startGame(r, u, config, rounds)

\* C15 as stated: in a room whose phase is not waiting, updateConfig and
\* startGame are answered BAD_REQUEST, whoever calls, and leave the room (its
\* config, rounds and currentRound) unchanged.
C15_RejectedOutsideWaiting ==
    [][\A r \in LiveRooms : \A u \in Usernames :
          (Room(r).phase # "waiting" /\ ConfigOrStart(r, u))
              => lastResult'.code = BAD_REQUEST /\ cache' = cache]_vars

\* C15, amended: in a room whose phase is not waiting, updateConfig and
\* startGame called by the room's host are answered BAD_REQUEST and leave the
\* room (its config, rounds and currentRound) unchanged; called by anyone else
\* they are answered UNAUTHORIZED and leave the room unchanged.
C15_HostRejectedOutsideWaiting ==
    [][\A r \in LiveRooms : \A u \in Usernames :
          (Room(r).phase # "waiting" /\ ConfigOrStart(r, u))
              => /\ cache' = cache
                 /\ lastResult'.code =
                        IF u = Room(r).hostId /\ u \in PlayersOf(r)
                        THEN BAD_REQUEST ELSE UNAUTHORIZED]_vars

C15_Witness ==
    /\ lastResult = [op |-> "updateConfig", code |-> BAD_REQUEST]
    /\ 1 \in LiveRooms
    /\ Room(1).phase = "round_end"

\* a host-only operation called by `u` for room `r`
HostOnly(r, u) == ConfigOrStart(r, u) \/ nextRound(r, u) \/ endGame(r, u)

\* C16: updateConfig, startGame, nextRound and endGame called by anyone who is
\* not the room's hostId (a member or not) are answered UNAUTHORIZED in every
\* phase, change nothing and emit nothing; the hostId of a room, also one that
\* became host by reassignment, passes the gate, and a former host does not.
C16_HostOnly ==
    [][\A r \in LiveRooms :
          /\ hostGate(Room(r), Room(r).hostId) = SUCCESS
          /\ \A u \in Usernames \ {Room(r).hostId} :
                 HostOnly(r, u)
                     => /\ lastResult'.code = UNAUTHORIZED
                        /\ cache' = cache
                        /\ lastEvents' = <<>>]_vars

C16_Witness ==
    /\ lastResult = [op |-> "nextRound", code |-> UNAUTHORIZED]
    /\ 1 \in LiveRooms
    /\ Room(1).phase = "round_end"
    /\ Room(1).hostId = "bob"
    /\ PlayersOf(1) = {"bob"}

C18_RejoinNeedsMembership ==
    [][\A c \in JoinCodes : \A u \in Usernames :
          (/\ CacheHas(codes, c) /\ CacheHas(cache, codes[c].v)
           /\ ~MapHas(Room(codes[c].v).players, u)
           /\ rejoinRoom(c, u, SocketOf[u]))
              => /\ lastResult'.code = NOT_FOUND
                 /\ cache' = cache
                 /\ lastEvents' = <<>>]_vars

C18_Witness ==
    /\ lastResult = [op |-> "rejoinRoom", code |-> NOT_FOUND]
    /\ 1 \in LiveRooms
    /\ Room(1).phase = "playing"
    /\ PlayersOf(1) = {"bob"}

\* a player's record without the fields a disconnect or a rejoin writes
Unmarked(player) ==
    [player EXCEPT !.status = "active", !.socketId = "", !.lastActivity = 0]

\* the step keeps room `r`, its phase, rounds and submissions, and every
\* player's score, answers log and the rest of the record
KeepsProgress(r) ==
    /\ r \in DOMAIN cache'
    /\ [cache'[r].v EXCEPT !.players = <<>>, !.lastActivity = 0]
           = [Room(r) EXCEPT !.players = <<>>, !.lastActivity = 0]
    /\ Len(cache'[r].v.players) = Len(Room(r).players)
    /\ \A i \in DOMAIN Room(r).players :
           Unmarked(cache'[r].v.players[i]) = Unmarked(Room(r).players[i])

\* C19: in every phase, the drop of a player's connection and the player's
\* rejoinRoom each leave every player's currentScore and answers log and the
\* rounds' submission sets as they were, and after the rejoinRoom the player's
\* status is active.
C19_ReconnectKeepsProgress ==
    [][/\ \A u \in Usernames :
             (markPlayerDisconnected(SocketOf[u])
                  \/ markPlayerDisconnected(ReconnectSocketOf[u]))
                 => \A r \in LiveRooms : KeepsProgress(r)
       /\ \A c \in JoinCodes : \A u \in Usernames :
             (/\ rejoinRoomResult(c, u) = SUCCESS
              /\ \/ rejoinRoom(c, u, SocketOf[u])
                 \/ rejoinRoom(c, u, ReconnectSocketOf[u]))
                 => /\ \A r \in LiveRooms : KeepsProgress(r)
                    /\ \A r \in RoomIds :
                           r = codes[c].v
                               => MapGet(cache'[r].v.players, u).status = "active"]_vars

C19_Witness ==
    /\ lastResult = [op |-> "rejoinRoom", code |-> SUCCESS]
    /\ lastEvents = <<Ev("player:rejoined", 1, "bob", 0)>>
    /\ 1 \in LiveRooms
    /\ Room(1).phase = "playing"
    /\ "bob" \in PlayersOf(1)
    /\ MapGet(Room(1).players, "bob").socketId = ReconnectSocketOf["bob"]
    /\ MapGet(Room(1).players, "bob").status = "active"
    /\ MapGet(Room(1).players, "bob").currentScore = 100
    /\ Len(MapGet(Room(1).players, "bob").answers) = 1
    /\ "bob" \in Submissions(1, 1)

\* room `r` is the scenario's room with both submissions of round 2 accepted
Round2Submitted(r) ==
    /\ r \in LiveRooms
    /\ PlayersOf(r) = Duo
    /\ Len(Room(r).rounds) = 2
    /\ Room(r).currentRound = 2
    /\ Submissions(r, 2) = Duo

\* the higher of the totals the players accumulated over their logged answers
HigherTotal(r) ==
    CHOOSE t \in {LoggedScore(Room(r).players[i]) : i \in DOMAIN Room(r).players} :
        \A i \in DOMAIN Room(r).players : LoggedScore(Room(r).players[i]) <= t

\* room `r` is finished with a winner whose score is the higher total
FinishedWithWinner(r) ==
    /\ Room(r).phase = "finished"
    /\ Len(Room(r).winner) = 1
    /\ Room(r).winner[1].score = HigherTotal(r)
    /\ Room(r).winner[1].username \in PlayersOf(r)
    /\ LoggedScore(MapGet(Room(r).players, Room(r).winner[1].username)) = HigherTotal(r)

\* C20 as stated: in the two-player, two-round scenario, once both players
\* have submitted for round 2 the room is finished, with a winner whose score
\* is the higher of the two accumulated totals.
C20_FinishedOnceBothSubmitted ==
    \A r \in RoomIds : Round2Submitted(r) => FinishedWithWinner(r)

\* C20, amended: in the two-player, two-round scenario the second submission
\* of round 2 moves the room to round_end, with no winner yet; the host's
\* nextRound then moves it to finished, with a winner whose score is the
\* higher of the two accumulated totals; and the room is in no other phase
\* once both have submitted for round 2.
C20_RoundEndThenHostFinishes ==
    [][\A r \in RoomIds :
          /\ (Round2Submitted(r)
                  => \/ Room(r).phase = "round_end" /\ Room(r).winner = <<>>
                     \/ FinishedWithWinner(r))'
          /\ (~Round2Submitted(r) /\ (Round2Submitted(r))')
                 => cache'[r].v.phase = "round_end"
          /\ (/\ Round2Submitted(r) /\ Room(r).phase = "round_end"
              /\ nextRound(r, Room(r).hostId))
                 => (FinishedWithWinner(r))']_vars

C20_Witness ==
    /\ lastResult = [op |-> "nextRound", code |-> SUCCESS]
    /\ Round2Submitted(1)
    /\ Room(1).phase = "finished"
    /\ Room(1).winner = <<[username |-> "bob", score |-> 200]>>
    /\ MapGet(Room(1).players, "alice").currentScore = 100

\* C21: a room whose phase is finished has a winner, and no step that leaves
\* the phase finished (a leave, of the winner too, a disconnect, a rejoin, a
\* rejected nextRound) changes the winner's username or score.
C21_WinnerFixedWhileFinished ==
    [][\A r \in RoomIds :
          /\ ((r \in LiveRooms /\ Room(r).phase = "finished")
                  => Len(Room(r).winner) = 1)'
          /\ (/\ r \in LiveRooms /\ Room(r).phase = "finished"
              /\ (r \in LiveRooms /\ Room(r).phase = "finished")')
                 => cache'[r].v.winner = Room(r).winner]_vars

C21_Witness ==
    /\ 1 \in LiveRooms
    /\ Room(1).phase = "finished"
    /\ Len(Room(1).winner) = 1
    /\ Room(1).winner[1].username \notin PlayersOf(1)
    /\ \E i \in DOMAIN Room(1).players : Room(1).players[i].status = "disconnected"

StartedRooms == {r \in LiveRooms : Room(r).phase # "waiting"}

\* the oracle reports at least 3 valid categories for the letter under the
\* room's supportedCategories
Admissible(r, letter) ==
    Cardinality(oracle[letter] \cap Room(r).config.supportedCategories) >= MinCategories

\* C23: the rounds of a started game have pairwise distinct letters, none of
\* them excluded by the config and each of them admissible, and are numbered
\* 1..k in their order, with k <= roundsCount.
C23_RoundLetters ==
    \A r \in StartedRooms :
        LET rounds == Room(r).rounds
        IN  /\ Len(rounds) <= Room(r).config.roundsCount
            /\ \A i \in DOMAIN rounds :
                   /\ rounds[i].roundNumber = i
                   /\ rounds[i].letter \notin Room(r).config.excludedLetters
                   /\ Admissible(r, rounds[i].letter)
                   /\ \A j \in DOMAIN rounds : rounds[i].letter = rounds[j].letter => i = j

C23_Witness ==
    /\ 1 \in StartedRooms
    /\ Room(1).config.excludedLetters = {"A"}
    /\ Room(1).config.roundsCount = 3
    /\ Len(Room(1).rounds) = 2
    /\ Room(1).rounds[1].letter = "C"
    /\ Room(1).rounds[2].letter = "B"

\* the letters of the alphabet that the room's config does not exclude and
\* that are admissible
AdmissibleLetters(r) ==
    {l \in MoreLetters \ Room(r).config.excludedLetters : Admissible(r, l)}

\* C24: a started game has fewer rounds than roundsCount only if fewer than
\* roundsCount non-excluded letters are admissible: every candidate letter is
\* examined, however many inadmissible letters come before an admissible one.
C24_FewerRoundsOnlyForLackOfLetters ==
    \A r \in StartedRooms :
        Len(Room(r).rounds) < Room(r).config.roundsCount
            => /\ Cardinality(AdmissibleLetters(r)) < Room(r).config.roundsCount
               /\ Len(Room(r).rounds) = Cardinality(AdmissibleLetters(r))

C24_Witness ==
    /\ 1 \in StartedRooms
    /\ oracle["A"] = {"name"}
    /\ oracle["B"] = {"name"}
    /\ Room(1).config.excludedLetters = {}
    /\ Room(1).config.roundsCount = 2
    /\ Len(Room(1).rounds) = 1
    /\ Room(1).rounds[1].letter = "C"

\* C25: every round of a started game has at least 3 and at most 5
\* categories, all of them among the categories the oracle reports for the
\* round's letter and among the room's supportedCategories.
C25_RoundCategories ==
    \A r \in StartedRooms : \A i \in DOMAIN Room(r).rounds :
        LET round == Room(r).rounds[i]
        IN  /\ Cardinality(round.categories) >= MinCategories
            /\ Cardinality(round.categories) <= 5
            /\ round.categories \subseteq oracle[round.letter]
            /\ round.categories \subseteq Room(r).config.supportedCategories

C25_Witness ==
    /\ 1 \in StartedRooms
    /\ Len(Room(1).rounds) = 2
    /\ oracle[Room(1).rounds[1].letter] = SixCategories
    /\ Room(1).config.supportedCategories = SixCategories
    /\ Cardinality(Room(1).rounds[1].categories) = 5
    /\ Cardinality(Room(1).rounds[2].categories) = 3

\* the samples of a run that collide with no active code
FreeSamples(samples) == {i \in DOMAIN samples : ~CacheHas(codes, samples[i])}

\* C26: in every reachable state createRoom succeeds whatever codes are
\* sampled, also when every sampled code collides with an active code; and
\* when a sampled code collides with no active code, the first such code
\* becomes the room's join code.
C26_CreateRoomSurvivesCollisions ==
    \A samples \in SampleRuns :
        /\ createRoomResult(samples) = SUCCESS
        /\ FreeSamples(samples) # {}
               => \E i \in FreeSamples(samples) :
                      /\ \A j \in FreeSamples(samples) : i <= j
                      /\ generateUniqueJoinCode(samples) = samples[i]

\* the last MaxChatMessages entries of a sequence, in their order
LastMessages(s) ==
    IF Len(s) <= MaxChatMessages THEN s
    ELSE SubSeq(s, Len(s) - MaxChatMessages + 1, Len(s))

\* C27: a room's chatMessages never has more than 50 entries; an accepted
\* chat message is appended to it, the oldest entry being dropped when there
\* are more than 50; and no other step changes it, so that the room holds the
\* last min(n, 50) of the n messages accepted so far, in send order.
C27_ChatKeepsLastMessages ==
    [][\A r \in LiveRooms :
          /\ Len(Room(r).chatMessages) <= MaxChatMessages
          /\ \A u \in Usernames : \A message \in MessageLengths :
                 (sendChatMessageResult(r, u, message) = SUCCESS
                      /\ sendChatMessage(r, u, message))
                     => cache'[r].v.chatMessages =
                            LastMessages(Append(Room(r).chatMessages,
                                                ChatMessage(u, message)))
          /\ (r \in DOMAIN cache'
                  /\ ~\E u \in Usernames, message \in MessageLengths :
                          sendChatMessage(r, u, message))
                 => cache'[r].v.chatMessages = Room(r).chatMessages]_vars

\* C28: a room's lastActivity is the time of the last step that changed the
\* room, and cleanupInactiveRooms removes, by id and by join code, exactly the
\* rooms for which that time is more than the threshold ago, leaving every
\* other room and its code entry as they were.
C28_CleanupRemovesExactlyTheInactive ==
    [][\A r \in LiveRooms :
          /\ (r \in DOMAIN cache' /\ cache'[r].v # Room(r))
                 => cache'[r].v.lastActivity = now
          /\ cleanupInactiveRooms
                 => IF now - Room(r).lastActivity > InactiveThreshold
                    THEN /\ r \notin DOMAIN cache'
                         /\ Room(r).joinCode \notin DOMAIN codes'
                    ELSE /\ r \in DOMAIN cache' /\ cache'[r] = cache[r]
                         /\ \A c \in DOMAIN codes :
                                codes[c].v = r
                                    => c \in DOMAIN codes' /\ codes'[c] = codes[c]]_vars

\* C29: while a game is in progress no step decreases the currentScore of a
\* player who stays in the room, whether or not submissions overlap; a score
\* goes down only in the step of an endGame, which puts the room in phase
\* waiting and the score at 0.
C29_ScoresNeverDecrease ==
    [][\A r \in LiveRooms : \A u \in PlayersOf(r) :
          (/\ Room(r).phase # "waiting"
           /\ r \in DOMAIN cache' /\ MapHas(cache'[r].v.players, u)
           /\ MapGet(cache'[r].v.players, u).currentScore
                  < MapGet(Room(r).players, u).currentScore)
              => /\ cache'[r].v.phase = "waiting"
                 /\ MapGet(cache'[r].v.players, u).currentScore = 0]_vars

\* C30: the outcome of a database write never reaches the room state machine:
\* a step in which a scheduled write resolves or is rejected, however late,
\* leaves the cache, the join codes, the suspended calls, the results and the
\* events exactly as they were
C30_PersistenceOutcomeLeavesTheMachine ==
    [][(sink.writes \ sink'.writes # {} \/ sink'.stored # sink.stored)
         => UNCHANGED machine]_vars

\* the game was played to its end although the write of createRoom was
\* rejected, that of startGame was stored and that of nextRound is still waiting
C30_Witness ==
    /\ CacheHas(cache, 1)
    /\ Room(1).phase = "finished"
    /\ [op |-> "createRoom", roomId |-> 1] \notin sink.writes \cup sink.stored
    /\ [op |-> "startGame", roomId |-> 1] \in sink.stored
    /\ [op |-> "nextRound", roomId |-> 1] \in sink.writes

PhaseEdges ==
    {<<"waiting", "starting">>, <<"starting", "playing">>, <<"playing", "round_end">>,
     <<"round_end", "playing">>, <<"round_end", "finished">>}

\* C31: every change of a room's phase follows one of the edges waiting ->
\* starting, starting -> playing, playing -> round_end, round_end -> playing,
\* round_end -> finished, or is the return to waiting made by a successful
\* endGame; no step changes the phase of a room in any other way.
C31_PhaseChangesFollowEdges ==
    [][\A r \in LiveRooms :
          (r \in DOMAIN cache' /\ cache'[r].v.phase # Room(r).phase)
              => \/ <<Room(r).phase, cache'[r].v.phase>> \in PhaseEdges
                 \/ /\ cache'[r].v.phase = "waiting"
                    /\ lastResult' = [op |-> "endGame", code |-> SUCCESS]]_vars

\* C32: a successful startGame leaves the room in phase starting, and the
\* step that follows it is the one of the game:start handler: it puts that
\* room in phase playing with currentRound 1 and round 1's startedAt set and
\* changes nothing else of the room but lastActivity, before any other request
\* is applied; so a room in phase starting never survives a step.
C32_StartingIsFollowedByPlaying ==
    [][\A r \in LiveRooms :
          /\ (/\ Room(r).phase = "waiting"
              /\ lastResult' # lastResult
              /\ lastResult' = [op |-> "startGame", code |-> SUCCESS]
              /\ lastEvents' = <<Ev("game:started", r, "", 1)>>)
                 => /\ CacheHas(cache', r)
                    /\ cache'[r].v.phase = "starting"
                    /\ cache'[r].v.currentRound = 1
          /\ Room(r).phase = "starting"
                 => /\ CacheHas(cache', r)
                    /\ cache'[r].v = [Room(r) EXCEPT !.phase = "playing",
                                                     !.rounds[1].startedAt = now,
                                                     !.lastActivity = now]
                    /\ cache'[r].v.currentRound = 1
                    /\ cache'[r].v.rounds[1].startedAt >= 0]_vars

\* the game:start of alice has been answered: her room is in phase playing,
\* in round 1, with the start time of round 1 recorded
C32_Witness ==
    /\ CacheHas(cache, 1)
    /\ pending = <<>>
    /\ lastResult = [op |-> "startGame", code |-> SUCCESS]
    /\ Room(1).phase = "playing"
    /\ Room(1).currentRound = 1
    /\ Room(1).rounds[1].startedAt = now
    /\ MapKeys(Room(1).players) = Duo

RoundEndedAt(evs) == {i \in DOMAIN evs : evs[i].type = "round:ended"}

C34_EveryChangeRefreshesLastActivity ==
    [][\A r \in LiveRooms :
          (CacheHas(cache', r) /\ cache'[r].v # Room(r))
              => /\ cache'[r].v.lastActivity = now'
                 /\ r \notin InactiveRooms']_vars

\* the submitAnswers calls that return from validation in this step
Returning == {slot \in DOMAIN inflight : slot \notin DOMAIN inflight'}

\* C35: the write-back of a submitAnswers call undoes nothing that was done
\* to its room while the call awaited validation: the room it stores has the
\* players, the host, the current round and the chat messages of the stored
\* room, and a room that was put back in waiting meanwhile stays in waiting
\* with no rounds and every score 0.
C35_WriteBackKeepsWhatHappenedMeanwhile ==
    [][\A slot \in Returning :
          LET r == inflight[slot].roomId
          IN  (/\ lastResult' = [op |-> "submitAnswers", code |-> SUCCESS]
               /\ CacheHas(cache, r) /\ CacheHas(cache', r))
                  => /\ MapKeys(cache'[r].v.players) = MapKeys(Room(r).players)
                     /\ cache'[r].v.hostId = Room(r).hostId
                     /\ cache'[r].v.currentRound = Room(r).currentRound
                     /\ cache'[r].v.chatMessages = Room(r).chatMessages
                     /\ Room(r).phase = "waiting"
                            => /\ cache'[r].v.phase = "waiting"
                               /\ cache'[r].v.rounds = <<>>
                               /\ \A u \in MapKeys(cache'[r].v.players) :
                                      MapGet(cache'[r].v.players, u).currentScore = 0]_vars

\* every player still in the room has submitted for the current round, and
\* the round has not ended
RoundStalled(r) ==
    /\ CacheHas(cache, r)
    /\ Room(r).phase = "playing"
    /\ \A n \in CurrentRounds(r) : PlayersOf(r) \subseteq Submissions(r, n)

\* C36: a round does not stall because of a departure: when, in phase
\* playing, every player still in the room has submitted for the current
\* round, the room leaves phase playing (for round_end), also when that came
\* about by the leave of the only player who had not submitted and no further
\* submission arrives.
C36_RoundEndsWhenRemainingPlayersSubmitted ==
    \A r \in GameRoomIds : RoundStalled(r) ~> ~RoundStalled(r)

\* C37: in every live room hostId is the username of a player of the room,
\* that player's role is host, and no other player of the room has the role
\* host, whatever creates, joins (also with a username already in the room),
\* leaves, rejoins and disconnects came before.
C37_ExactlyOneHost ==
    \A r \in LiveRooms :
        /\ MapHas(Room(r).players, Room(r).hostId)
        /\ \A u \in PlayersOf(r) :
               MapGet(Room(r).players, u).role = "host" <=> u = Room(r).hostId

\* C38: the two indexes of the registry agree: every live room is found by
\* its join code (the entry of its joinCode is readable and holds its
\* roomId), and every readable join-code entry leads to a live room with that
\* join code; across creations, destructions and the expiry of entries.
C38_IndexesAgree ==
    /\ \A r \in LiveRooms :
           /\ CacheHas(codes, Room(r).joinCode)
           /\ codes[Room(r).joinCode].v = r
    /\ \A c \in DOMAIN codes :
           CacheHas(codes, c)
               => /\ CacheHas(cache, codes[c].v)
                  /\ Room(codes[c].v).joinCode = c

\* C39: a room in phase waiting has currentRound 0, no rounds, no winner and
\* every player at score 0 with an empty answers log; a room in phase
\* starting, playing, round_end or finished has a current round between 1 and
\* the number of its rounds, and as many rounds as totalRounds says.
C39_RoundsMatchThePhase ==
    \A r \in LiveRooms :
        IF Room(r).phase = "waiting"
        THEN /\ Room(r).currentRound = 0
             /\ Room(r).rounds = <<>>
             /\ Room(r).winner = <<>>
             /\ \A u \in PlayersOf(r) :
                    /\ MapGet(Room(r).players, u).currentScore = 0
                    /\ MapGet(Room(r).players, u).answers = <<>>
        ELSE /\ 1 <= Room(r).currentRound
             /\ Room(r).currentRound <= Len(Room(r).rounds)
             /\ Len(Room(r).rounds) = Room(r).totalRounds

\* C40: in every live room each player's currentScore is the sum of the
\* scores of the entries of that player's answers log, every entry's
\* roundNumber is between 1 and the room's currentRound, and a player has
\* entries tagged with the current round only if that player is in the
\* current round's submissions.
C40_ScoreIsTheSumOfTheLog ==
    \A r \in LiveRooms : \A u \in PlayersOf(r) :
        LET player == MapGet(Room(r).players, u)
        IN  /\ player.currentScore = LoggedScore(player)
            /\ \A i \in DOMAIN player.answers :
                   /\ 1 <= player.answers[i].roundNumber
                   /\ player.answers[i].roundNumber <= Room(r).currentRound
            /\ \A n \in CurrentRounds(r) :
                   LogOfRound(player, n) # <<>> => u \in Submissions(r, n)

\* in round 1 alice has submitted and bob has not: alice has 100 points, one
\* logged answer of round 1 and is in the submissions; bob has none of these
C40_Witness ==
    /\ CacheHas(cache, 1)
    /\ Room(1).phase = "playing"
    /\ Room(1).currentRound = 1
    /\ PlayersOf(1) = Duo
    /\ Submissions(1, 1) = {"alice"}
    /\ MapGet(Room(1).players, "alice").currentScore = 100
    /\ Len(MapGet(Room(1).players, "alice").answers) = 1
    /\ MapGet(Room(1).players, "bob").currentScore = 0
    /\ MapGet(Room(1).players, "bob").answers = <<>>

====
